---- MODULE Spec2Model ----
(***************************************************************************)
(* Broadcast dispatch engine of gowa-broadcast                             *)
(* (internal/broadcast/broadcast.go): job creation and validation, the     *)
(* per-job dispatch goroutine with its rate-limit window, progress         *)
(* flushes, and cancellation; together with the persisted                  *)
(* BroadcastMessage records it reads and writes.                           *)
(*                                                                         *)
(* Time is measured in ticks of half a minute.  The code only ever         *)
(* compares time.Since(windowStart) with time.Minute and sleeps for the    *)
(* difference, so each goroutine's clock reading is kept as the time       *)
(* elapsed since its windowStart, saturated at one minute.                 *)
(***************************************************************************)
EXTENDS Integers, Sequences, FiniteSets, TLC

\* ------------------------------------------------------------------ bounds
\* cfg.Broadcast.MaxRecipients (BROADCAST_MAX_RECIPIENTS), scaled down.
MaxRecipients == 2
\* cfg.Broadcast.RateLimit (BROADCAST_RATE_LIMIT), scaled down.
RateLimit == 1

\* ------------------------------------------------------- program constants
\* time.Minute in ticks.
Minute == 2
\* Progress is flushed every 10 recipients.
FlushEvery == 10

\* The defaults of BROADCAST_RATE_LIMIT and BROADCAST_MAX_RECIPIENTS.
DefaultRateLimit == 10
DefaultMaxRecipients == 100

\* The engine is followed for its first two jobs: rows 1 and 2 of the table
\* and their goroutines.
JobIds == {1, 2}

\* The accounts followed: rows 1 to 3 of the users table.
UserIds == {1, 2, 3}

\* ------------------------------------------------------------ configuration
\* The value of an environment variable: unset (or empty), a decimal
\* integer, or some other text.
EnvInt(n) == <<"int", n>>
EnvUnset == <<"unset">>
EnvText == <<"text">>

\* getEnvInt: the parsed value if the variable is set and strconv.Atoi
\* accepts it, the default otherwise.
getEnvInt(value, defaultValue) ==
  IF value[1] = "int" THEN value[2] ELSE defaultValue

\* config.Load: the Broadcast section.
Load(envRateLimit, envMaxRecipients) ==
  [RateLimit |-> getEnvInt(envRateLimit, DefaultRateLimit),
   MaxRecipients |-> getEnvInt(envMaxRecipients, DefaultMaxRecipients)]

\* NewManager keeps the configuration it is given.
NewManager(c) == c

\* ------------------------------------------------------------ stored lists
\* The broadcast_lists table with its preloaded recipients.  A recipient is
\* [JID, IsActive]; the JID is a number.
Recipient(jid, on) == [JID |-> jid, IsActive |-> on]

\* list 1: active, exactly MaxRecipients active recipients and one inactive
\* list 2: active, a single active recipient after an inactive one
\* list 3: not active, one active recipient
\* list 4: active, no active recipient
\* list 5: active, MaxRecipients + 1 active recipients and one inactive
\* list 6: no such row
\* list 7: not active, no active recipient
\* list 8: not active, MaxRecipients + 1 active recipients
\* list 9: active, FlushEvery + 1 active recipients
\* UserID is the user the list belongs to: lists 1 to 5 are user 1's, lists
\* 7 to 9 user 2's.
BroadcastLists ==
  (1 :> [UserID |-> 1, IsActive |-> TRUE,
         Recipients |->
           [i \in 1..(MaxRecipients + 1) |-> Recipient(i, i # 2)]]) @@
  (2 :> [UserID |-> 1, IsActive |-> TRUE,
         Recipients |-> <<Recipient(1, FALSE), Recipient(2, TRUE)>>]) @@
  (3 :> [UserID |-> 1, IsActive |-> FALSE,
         Recipients |-> <<Recipient(1, TRUE)>>]) @@
  (4 :> [UserID |-> 1, IsActive |-> TRUE,
         Recipients |-> <<Recipient(1, FALSE)>>]) @@
  (5 :> [UserID |-> 1, IsActive |-> TRUE,
         Recipients |->
           [i \in 1..(MaxRecipients + 2) |-> Recipient(i, i # 1)]]) @@
  (7 :> [UserID |-> 2, IsActive |-> FALSE,
         Recipients |-> <<Recipient(1, FALSE)>>]) @@
  (8 :> [UserID |-> 2, IsActive |-> FALSE,
         Recipients |->
           [i \in 1..(MaxRecipients + 1) |-> Recipient(i, TRUE)]]) @@
  (9 :> [UserID |-> 2, IsActive |-> TRUE,
         Recipients |->
           [i \in 1..(FlushEvery + 1) |-> Recipient(i, TRUE)]])

ListIds == 1..9

\* Message types a request may carry: the binding only requires a non-empty
\* string.
MessageTypes == {"text", "image", "sticker"}

VARIABLES
  db,           \* broadcast_messages table: sequence of rows, row id = index
  active,       \* Manager.active: ids of the registered jobs
  job,          \* the BroadcastJob object of each executeBroadcast goroutine
  pc,           \* position of each executeBroadcast goroutine
  idx,          \* loop index i of sendToRecipients
  sentInWindow, \* local sentInWindow of sendToRecipients
  elapsed,      \* time.Since(windowStart), saturated at Minute
  sleepLeft,    \* remaining time of the rate-limit time.Sleep
  attempts,     \* transport side: calls started since windowStart was set
  okInWindow,   \* transport side: calls answered without error since then
  sendLog,      \* transport side: the JIDs of the attempts, in order
  delivered,    \* transport side: number of attempts that returned no error
  delays,       \* clock side: number of inter-message time.Sleep calls
  cancelPc,     \* position of the CancelBroadcast call on each id
  cancelRet,    \* last value returned by CancelBroadcast for each id
  signalled,    \* a CancelBroadcast call has found the job registered
  resp,         \* last response of CreateBroadcast
  cfg,          \* Manager.cfg.Broadcast: the configuration loaded at start
  ready,        \* whatsapp.Client.IsReady()
  refused,      \* transport side: whether each attempt found the client not ready
  users,        \* users table: the row of each user id
  tokens        \* the claims of the issued tokens that have not expired

vars == <<db, active, job, pc, idx, sentInWindow, elapsed, sleepLeft,
          attempts, okInWindow, sendLog, delivered, delays, cancelPc,
          cancelRet,
          signalled, resp, cfg, ready, refused, users, tokens>>

loopVars == <<idx, sentInWindow, elapsed, sleepLeft, attempts,
              okInWindow, refused>>
logVars == <<sendLog, delivered, delays>>
cancelVars == <<cancelPc, cancelRet, signalled>>
\* The rest of the server: configuration, transport state, accounts.
srvVars == <<cfg, ready, users, tokens>>

NoJob == [Recipients |-> <<>>, MessageType |-> "", Status |-> "",
          SentCount |-> 0, FailedCount |-> 0, TotalRecipients |-> 0,
          cancel |-> 0]

\* A BroadcastResponse with the error returned beside it and, for reference,
\* the list the request named.
NoResp == [Success |-> FALSE, BroadcastID |-> 0, TotalRecipients |-> 0,
           err |-> "none", list |-> 0]

\* A row of the users table: its role and its active flag.  Exists is FALSE
\* for an id without row; Taken tells that the id sequence of the table has
\* given the id out: NoUser is an id not given out yet, DeletedUser the id
\* of a deleted row.
NoUser == [Exists |-> FALSE, Taken |-> FALSE, Role |-> "", Active |-> FALSE]
DeletedUser ==
  [Exists |-> FALSE, Taken |-> TRUE, Role |-> "", Active |-> FALSE]
User(role, on) ==
  [Exists |-> TRUE, Taken |-> TRUE, Role |-> role, Active |-> on]

\* The default admin created by autoMigrate and a user it has created.
InitUsers ==
  [u \in UserIds |->
     IF u = 1 THEN User("admin", TRUE)
     ELSE IF u = 2 THEN User("user", TRUE)
     ELSE NoUser]

\* The claims of a token: the user's id and the role the user had when the
\* token was issued.
Token(u, role) == [UserID |-> u, Role |-> role]

\* Both users have logged in.
InitTokens == {Token(1, "admin"), Token(2, "user")}

\* The state after start-up with the given environment.
InitWith(envRateLimit, envMaxRecipients) ==
  /\ cfg = NewManager(Load(envRateLimit, envMaxRecipients))
  /\ ready = TRUE
  /\ refused = [j \in JobIds |-> <<>>]
  /\ users = InitUsers
  /\ tokens = InitTokens
  /\ db = <<>>
  /\ active = {}
  /\ job = [j \in JobIds |-> NoJob]
  /\ pc = [j \in JobIds |-> "none"]
  /\ idx = [j \in JobIds |-> 0]
  /\ sentInWindow = [j \in JobIds |-> 0]
  /\ elapsed = [j \in JobIds |-> 0]
  /\ sleepLeft = [j \in JobIds |-> 0]
  /\ attempts = [j \in JobIds |-> 0]
  /\ okInWindow = [j \in JobIds |-> 0]
  /\ sendLog = [j \in JobIds |-> <<>>]
  /\ delivered = [j \in JobIds |-> 0]
  /\ delays = [j \in JobIds |-> 0]
  /\ cancelPc = [j \in JobIds |-> "idle"]
  /\ cancelRet = [j \in JobIds |-> "none"]
  /\ signalled = [j \in JobIds |-> FALSE]
  /\ resp = NoResp

\* Started with BROADCAST_RATE_LIMIT and BROADCAST_MAX_RECIPIENTS set to the
\* two bounds.
Init == InitWith(EnvInt(RateLimit), EnvInt(MaxRecipients))

\* ---------------------------------------------------------- CreateBroadcast
\* The recipients of a list that are active, in list order.
ActiveRecipients(list) ==
  SelectSeq(list.Recipients, LAMBDA r : r.IsActive)

\* Variant: the recipient limit tested with >= (a list exactly at the limit is
\* refused).
ValidationErrorAtLimit(listId) ==
  IF listId \notin DOMAIN BroadcastLists THEN "record not found"
  ELSE IF ~BroadcastLists[listId].IsActive THEN "broadcast list is not active"
  ELSE IF Len(ActiveRecipients(BroadcastLists[listId])) = 0
    THEN "no active recipients"
  ELSE IF Len(ActiveRecipients(BroadcastLists[listId])) >= cfg.MaxRecipients
    THEN "too many recipients"
  ELSE "nil"

\* Variant: the recipients are counted before the list's IsActive flag is
\* looked at.
ValidationErrorCountFirst(listId) ==
  IF listId \notin DOMAIN BroadcastLists THEN "record not found"
  ELSE IF Len(ActiveRecipients(BroadcastLists[listId])) = 0
    THEN "no active recipients"
  ELSE IF Len(ActiveRecipients(BroadcastLists[listId])) > cfg.MaxRecipients
    THEN "too many recipients"
  ELSE IF ~BroadcastLists[listId].IsActive THEN "broadcast list is not active"
  ELSE "nil"

\* The validation of CreateBroadcast: the error it returns, "nil" if none.
ValidationError(listId) ==
  IF listId \notin DOMAIN BroadcastLists THEN "record not found"
  ELSE IF ~BroadcastLists[listId].IsActive THEN "broadcast list is not active"
  ELSE IF Len(ActiveRecipients(BroadcastLists[listId])) = 0
    THEN "no active recipients"
  ELSE IF Len(ActiveRecipients(BroadcastLists[listId])) > cfg.MaxRecipients
    THEN "too many recipients"
  ELSE "nil"

\* The row CreateBroadcast inserts.
NewBroadcastMessage(listId, msgType) ==
  [UserID |-> 0, BroadcastListID |-> listId, MessageType |-> msgType,
   Status |-> "pending",
   SentCount |-> 0, FailedCount |-> 0,
   TotalRecipients |-> Len(ActiveRecipients(BroadcastLists[listId])),
   StartedAt |-> FALSE, CompletedAt |-> FALSE]

\* Variant: the refused request is recorded as a row with status "failed".
RejectRecorded(listId, e) ==
  /\ resp' = [NoResp EXCEPT !.err = e, !.list = listId]
  /\ db' = Append(db, [UserID |-> 0, BroadcastListID |-> listId,
                       MessageType |-> "",
                       Status |-> "failed", SentCount |-> 0,
                       FailedCount |-> 0, TotalRecipients |-> 0,
                       StartedAt |-> FALSE, CompletedAt |-> FALSE])
  /\ UNCHANGED pc

\* A failed validation: return &BroadcastResponse{Success: false}, err.
Reject(listId, e) ==
  /\ resp' = [NoResp EXCEPT !.err = e, !.list = listId]
  /\ UNCHANGED <<db, pc>>

\* One call: the validation, then the insert of the pending row and, unless
\* the request carries scheduled_at, go m.executeBroadcast.
CreateBroadcast(listId, msgType, scheduled) ==
  LET e == ValidationError(listId) IN
  IF e # "nil"
  THEN /\ Reject(listId, e)
       /\ UNCHANGED <<active, job, loopVars, logVars, cancelVars,
                      srvVars>>
  ELSE /\ Len(db) + 1 \in JobIds
       /\ db' = Append(db, NewBroadcastMessage(listId, msgType))
       /\ resp' = [Success |-> TRUE, BroadcastID |-> Len(db) + 1,
                   TotalRecipients |->
                     Len(ActiveRecipients(BroadcastLists[listId])),
                   err |-> "nil", list |-> listId]
       /\ pc' = IF scheduled THEN pc
                ELSE [pc EXCEPT ![Len(db) + 1] = "start"]
       /\ UNCHANGED <<active, job, loopVars, logVars, cancelVars,
                      srvVars>>

\* --------------------------------------------------------- executeBroadcast
\* Variant: the JIDs are stored from the end of the slice.
JIDsReversed(recipients) ==
  [i \in 1..Len(recipients) |-> recipients[Len(recipients) + 1 - i].JID]

\* JIDs of the recipients handed to the goroutine.
JIDs(recipients) == [i \in 1..Len(recipients) |-> recipients[i].JID]

\* Variant: the row is marked "sending" without StartedAt, which reaches the
\* row only with the final Save.
MarkSendingNoStart(j) ==
  /\ pc[j] = "start"
  /\ db' = [db EXCEPT ![j].Status = "sending"]
  /\ job' = [job EXCEPT ![j] =
       [Recipients |->
          JIDs(ActiveRecipients(BroadcastLists[db[j].BroadcastListID])),
        MessageType |-> db[j].MessageType, Status |-> "sending",
        SentCount |-> 0, FailedCount |-> 0,
        TotalRecipients |->
          Len(ActiveRecipients(BroadcastLists[db[j].BroadcastListID])),
        cancel |-> 0]]
  /\ pc' = [pc EXCEPT ![j] = "register"]
  /\ UNCHANGED <<active, loopVars, logVars, cancelVars, resp, srvVars>>

\* Loads the row, saves it as "sending" with StartedAt, builds the job.
MarkSending(j) ==
  /\ pc[j] = "start"
  /\ db' = [db EXCEPT ![j].Status = "sending", ![j].StartedAt = TRUE]
  /\ job' = [job EXCEPT ![j] =
       [Recipients |->
          JIDs(ActiveRecipients(BroadcastLists[db[j].BroadcastListID])),
        MessageType |-> db[j].MessageType, Status |-> "sending",
        SentCount |-> 0, FailedCount |-> 0,
        TotalRecipients |->
          Len(ActiveRecipients(BroadcastLists[db[j].BroadcastListID])),
        cancel |-> 0]]
  /\ pc' = [pc EXCEPT ![j] = "register"]
  /\ UNCHANGED <<active, loopVars, logVars, cancelVars, resp, srvVars>>

\* m.active[broadcastID] = job, then the entry of sendToRecipients.
Register(j) ==
  /\ pc[j] = "register"
  /\ active' = active \cup {j}
  /\ idx' = [idx EXCEPT ![j] = 0]
  /\ sentInWindow' = [sentInWindow EXCEPT ![j] = 0]
  /\ elapsed' = [elapsed EXCEPT ![j] = 0]
  /\ attempts' = [attempts EXCEPT ![j] = 0]
  /\ okInWindow' = [okInWindow EXCEPT ![j] = 0]
  /\ pc' = [pc EXCEPT ![j] = "check"]
  /\ UNCHANGED <<db, job, sleepLeft, refused, logVars, cancelVars, resp,
                 srvVars>>

\* The locals of sendToRecipients go out of scope when it returns.
LeaveLoop(j) ==
  /\ idx' = [idx EXCEPT ![j] = 0]
  /\ sentInWindow' = [sentInWindow EXCEPT ![j] = 0]
  /\ elapsed' = [elapsed EXCEPT ![j] = 0]
  /\ sleepLeft' = [sleepLeft EXCEPT ![j] = 0]
  /\ attempts' = [attempts EXCEPT ![j] = 0]
  /\ okInWindow' = [okInWindow EXCEPT ![j] = 0]
  /\ refused' = refused
  /\ pc' = [pc EXCEPT ![j] = "unregister"]

\* Variant: the gate closes one send late (> for >=).
GateClosedLate(j) == sentInWindow[j] > cfg.RateLimit

\* Top of an iteration: the cancellation poll, then the rate-limit test.
\* The gate is closed when sentInWindow has reached the limit.
GateClosed(j) == sentInWindow[j] >= cfg.RateLimit

CheckCancelled(j) ==
  /\ pc[j] = "check"
  /\ job[j].cancel > 0
  /\ job' = [job EXCEPT ![j].cancel = 0]
  /\ LeaveLoop(j)
  /\ UNCHANGED <<db, active, logVars, cancelVars, resp, srvVars>>

\* Variant: the iteration goes on to the send without the cancellation
\* poll.
GateOpenUnpolled(j) ==
  /\ pc[j] = "check"
  /\ ~GateClosed(j)
  /\ pc' = [pc EXCEPT ![j] = "send"]
  /\ UNCHANGED <<db, active, job, loopVars, logVars, cancelVars, resp,
                 srvVars>>

\* Gate open: straight on to the send.
GateOpen(j) ==
  /\ pc[j] = "check"
  /\ job[j].cancel = 0
  /\ ~GateClosed(j)
  /\ pc' = [pc EXCEPT ![j] = "send"]
  /\ UNCHANGED <<db, active, job, loopVars, logVars, cancelVars, resp,
                 srvVars>>

\* Variant: the sleep ends one tick before the minute is over.
SleepForShort(e) == IF e < Minute THEN Minute - e - 1 ELSE 0

\* The length of the rate-limit sleep: time.Minute - elapsed, if positive.
SleepFor(e) == IF e < Minute THEN Minute - e ELSE 0

\* Variant: with the window used up the recipient is skipped instead of
\* waited for.
GateSleepDrops(j) ==
  /\ pc[j] = "check"
  /\ job[j].cancel = 0
  /\ GateClosed(j)
  /\ IF idx[j] < Len(job[j].Recipients) - 1
     THEN /\ idx' = [idx EXCEPT ![j] = @ + 1]
          /\ pc' = pc
          /\ UNCHANGED <<sentInWindow, elapsed, sleepLeft, attempts,
                         okInWindow, refused>>
     ELSE LeaveLoop(j)
  /\ UNCHANGED <<db, active, job, logVars, cancelVars, resp, srvVars>>

\* Gate closed: sleep for the rest of the minute (not at all if the minute
\* has passed).
GateSleep(j) ==
  /\ pc[j] = "check"
  /\ job[j].cancel = 0
  /\ GateClosed(j)
  /\ sleepLeft' = [sleepLeft EXCEPT ![j] = SleepFor(elapsed[j])]
  /\ pc' = [pc EXCEPT ![j] = "ratesleep"]
  /\ UNCHANGED <<db, active, job, idx, sentInWindow, elapsed, attempts,
                 okInWindow, refused, logVars, cancelVars, resp, srvVars>>

\* The sleep is over: sentInWindow = 0, windowStart = time.Now().
WindowReset(j) ==
  /\ pc[j] = "ratesleep"
  /\ sleepLeft[j] = 0
  /\ sentInWindow' = [sentInWindow EXCEPT ![j] = 0]
  /\ elapsed' = [elapsed EXCEPT ![j] = 0]
  /\ attempts' = [attempts EXCEPT ![j] = 0]
  /\ okInWindow' = [okInWindow EXCEPT ![j] = 0]
  /\ pc' = [pc EXCEPT ![j] = "send"]
  /\ UNCHANGED <<db, active, job, idx, sleepLeft, refused, logVars,
                 cancelVars, resp, srvVars>>

\* Client.IsReady(): connected and logged in.
IsReady == ready

\* The message types the switch hands to the transport.
TransportTypes == {"text", "image", "document", "audio", "video"}

\* Variant: with the client not ready the loop is left instead of the
\* recipient being attempted.
SendStartAborts(j) ==
  /\ pc[j] = "send"
  /\ IF job[j].MessageType \in TransportTypes /\ ~IsReady
     THEN /\ LeaveLoop(j)
          /\ UNCHANGED sendLog
     ELSE /\ refused' = [refused EXCEPT ![j] = Append(@, FALSE)]
          /\ attempts' = [attempts EXCEPT ![j] = @ + 1]
          /\ sendLog' = [sendLog EXCEPT ![j] =
               Append(@, job[j].Recipients[idx[j] + 1])]
          /\ pc' = [pc EXCEPT ![j] = "inflight"]
          /\ UNCHANGED <<idx, sentInWindow, elapsed, sleepLeft, okInWindow>>
  /\ UNCHANGED <<db, active, job, delivered, delays, cancelVars, resp,
                 srvVars>>

\* The switch on job.MessageType: the call to the transport starts, and
\* SendTextMessage or SendMediaMessage first asks IsReady and returns the
\* error "client not ready" if it is not.
SendStart(j) ==
  /\ pc[j] = "send"
  /\ refused' = [refused EXCEPT ![j] =
       Append(@, job[j].MessageType \in TransportTypes /\ ~IsReady)]
  /\ attempts' = [attempts EXCEPT ![j] = @ + 1]
  /\ sendLog' = [sendLog EXCEPT ![j] = Append(@, job[j].Recipients[idx[j] + 1])]
  /\ pc' = [pc EXCEPT ![j] = "inflight"]
  /\ UNCHANGED <<db, active, job, idx, sentInWindow, elapsed, sleepLeft,
                 okInWindow, delivered, delays, cancelVars, resp, srvVars>>

\* What the switch can yield: err = nil (TRUE) or an error (FALSE).
SendOutcomes(msgType) ==
  IF msgType \in TransportTypes
  THEN {TRUE, FALSE}
  ELSE {FALSE}

\* Variant: the else is missing, a failed attempt is counted as sent too.
CountedAlsoSent(jb, ok) ==
  IF ok THEN [jb EXCEPT !.SentCount = @ + 1]
  ELSE [jb EXCEPT !.FailedCount = @ + 1, !.SentCount = @ + 1]

\* The counters after an attempt.
Counted(jb, ok) ==
  IF ok THEN [jb EXCEPT !.SentCount = @ + 1]
  ELSE [jb EXCEPT !.FailedCount = @ + 1]

\* sentInWindow after an attempt.
WindowCounted(n, ok) == IF ok THEN n + 1 ELSE n

\* Variant: the flush comes one recipient late (i for i + 1).
FlushDueLate(i, n) == i % FlushEvery = 0 \/ i = n - 1

\* The progress flush is due after the attempt at index i of n recipients.
FlushDue(i, n) == (i + 1) % FlushEvery = 0 \/ i = n - 1

\* Variant: the delay is slept after the last recipient too.
DelayDueAlways(i, n) == TRUE

\* The inter-message delay is due after the attempt at index i of n
\* recipients.
DelayDue(i, n) == i < n - 1

\* Variant: a progress flush that fails ends the loop.
SendReturnStopsOnStoreError(j, ok, stored) ==
  /\ pc[j] = "inflight"
  /\ ok \in SendOutcomes(job[j].MessageType)
  /\ refused[j][Len(refused[j])] => ~ok
  /\ stored \/ FlushDue(idx[j], Len(job[j].Recipients))
  /\ job' = [job EXCEPT ![j] = Counted(@, ok)]
  /\ delivered' = [delivered EXCEPT ![j] = IF ok THEN @ + 1 ELSE @]
  /\ delays' = [delays EXCEPT ![j] =
       IF DelayDue(idx[j], Len(job[j].Recipients)) THEN @ + 1 ELSE @]
  /\ db' = IF FlushDue(idx[j], Len(job[j].Recipients)) /\ stored
           THEN [db EXCEPT ![j].SentCount = job'[j].SentCount,
                           ![j].FailedCount = job'[j].FailedCount]
           ELSE db
  /\ IF idx[j] < Len(job[j].Recipients) - 1 /\ stored
     THEN /\ sentInWindow' =
               [sentInWindow EXCEPT ![j] = WindowCounted(@, ok)]
          /\ okInWindow' = [okInWindow EXCEPT ![j] = IF ok THEN @ + 1 ELSE @]
          /\ idx' = [idx EXCEPT ![j] = @ + 1]
          /\ pc' = [pc EXCEPT ![j] = "check"]
          /\ UNCHANGED <<elapsed, sleepLeft, attempts, refused>>
     ELSE LeaveLoop(j)
  /\ UNCHANGED <<active, sendLog, cancelVars, resp, srvVars>>

\* The call returns: count it, flush the counters if due (stored tells
\* whether the store carried the update out; its result is not looked at),
\* and either sleep
\* the inter-message delay and start the next iteration (position "check"
\* covers the delay and the poll that follows it) or leave the loop after the
\* last recipient.
SendReturn(j, ok, stored) ==
  /\ pc[j] = "inflight"
  /\ ok \in SendOutcomes(job[j].MessageType)
  /\ refused[j][Len(refused[j])] => ~ok
  /\ stored \/ FlushDue(idx[j], Len(job[j].Recipients))
  /\ job' = [job EXCEPT ![j] = Counted(@, ok)]
  /\ delivered' = [delivered EXCEPT ![j] = IF ok THEN @ + 1 ELSE @]
  /\ delays' = [delays EXCEPT ![j] =
       IF DelayDue(idx[j], Len(job[j].Recipients)) THEN @ + 1 ELSE @]
  /\ db' = IF FlushDue(idx[j], Len(job[j].Recipients)) /\ stored
           THEN [db EXCEPT ![j].SentCount = job'[j].SentCount,
                           ![j].FailedCount = job'[j].FailedCount]
           ELSE db
  /\ IF idx[j] < Len(job[j].Recipients) - 1
     THEN /\ sentInWindow' =
               [sentInWindow EXCEPT ![j] = WindowCounted(@, ok)]
          /\ okInWindow' = [okInWindow EXCEPT ![j] = IF ok THEN @ + 1 ELSE @]
          /\ idx' = [idx EXCEPT ![j] = @ + 1]
          /\ pc' = [pc EXCEPT ![j] = "check"]
          /\ UNCHANGED <<elapsed, sleepLeft, attempts, refused>>
     ELSE LeaveLoop(j)
  /\ UNCHANGED <<active, sendLog, cancelVars, resp, srvVars>>

\* The same return in its three statements, for what another goroutine can
\* see between them.  First the call returns and is counted.
Count(j, ok) ==
  /\ pc[j] = "inflight"
  /\ ok \in SendOutcomes(job[j].MessageType)
  /\ refused[j][Len(refused[j])] => ~ok
  /\ job' = [job EXCEPT ![j] = Counted(@, ok)]
  /\ delivered' = [delivered EXCEPT ![j] = IF ok THEN @ + 1 ELSE @]
  /\ sentInWindow' = [sentInWindow EXCEPT ![j] = WindowCounted(@, ok)]
  /\ okInWindow' = [okInWindow EXCEPT ![j] = IF ok THEN @ + 1 ELSE @]
  /\ pc' = [pc EXCEPT ![j] = "flush"]
  /\ UNCHANGED <<db, active, idx, elapsed, sleepLeft, attempts, refused,
                 sendLog, delays, cancelVars, resp, srvVars>>

\* Then the counters are flushed to the row if the flush is due.
ProgressFlush(j, stored) ==
  /\ pc[j] = "flush"
  /\ stored \/ FlushDue(idx[j], Len(job[j].Recipients))
  /\ db' = IF FlushDue(idx[j], Len(job[j].Recipients)) /\ stored
           THEN [db EXCEPT ![j].SentCount = job[j].SentCount,
                           ![j].FailedCount = job[j].FailedCount]
           ELSE db
  /\ pc' = [pc EXCEPT ![j] = "delay"]
  /\ UNCHANGED <<active, job, loopVars, logVars, cancelVars, resp, srvVars>>

\* Then the inter-message delay is slept if it is due, and the range loop
\* goes to the next recipient or ends.
InterMessageDelay(j) ==
  /\ pc[j] = "delay"
  /\ delays' = [delays EXCEPT ![j] =
       IF DelayDue(idx[j], Len(job[j].Recipients)) THEN @ + 1 ELSE @]
  /\ IF idx[j] < Len(job[j].Recipients) - 1
     THEN /\ idx' = [idx EXCEPT ![j] = @ + 1]
          /\ pc' = [pc EXCEPT ![j] = "check"]
          /\ UNCHANGED <<sentInWindow, elapsed, sleepLeft, attempts,
                         okInWindow, refused>>
     ELSE LeaveLoop(j)
  /\ UNCHANGED <<db, active, job, sendLog, delivered, cancelVars, resp,
                 srvVars>>

\* Variant: the entry is deleted only when every recipient was attempted.
UnregisterIfAllAttempted(j) ==
  /\ pc[j] = "unregister"
  /\ active' = IF job[j].SentCount + job[j].FailedCount
                    = Len(job[j].Recipients)
               THEN active \ {j} ELSE active
  /\ pc' = [pc EXCEPT ![j] = "finalize"]
  /\ UNCHANGED <<db, job, loopVars, logVars, cancelVars, resp, srvVars>>

\* Variant: the entry is not deleted.
UnregisterKeeps(j) ==
  /\ pc[j] = "unregister"
  /\ pc' = [pc EXCEPT ![j] = "finalize"]
  /\ UNCHANGED <<db, active, job, loopVars, logVars, cancelVars, resp,
                 srvVars>>

\* delete(m.active, broadcastID)
Unregister(j) ==
  /\ pc[j] = "unregister"
  /\ active' = active \ {j}
  /\ pc' = [pc EXCEPT ![j] = "finalize"]
  /\ UNCHANGED <<db, job, loopVars, logVars, cancelVars, resp, srvVars>>

\* Variant: a broadcast with a failed recipient ends as "failed".
FinalStatusFailed(j) ==
  IF job[j].FailedCount > 0 THEN "failed" ELSE "completed"

\* The status the goroutine writes when sendToRecipients has returned.
FinalStatus(j) == "completed"

\* Variant: the final write sets the status and CompletedAt only.
FinalizeStatusOnly(j) ==
  /\ pc[j] = "finalize"
  /\ db' = [db EXCEPT ![j].Status = FinalStatus(j),
                      ![j].CompletedAt = TRUE]
  /\ pc' = [pc EXCEPT ![j] = "done"]
  /\ UNCHANGED <<active, job, loopVars, logVars, cancelVars, resp, srvVars>>

\* Variant: a broadcast with a failed recipient is executed again.
FinalizeRetry(j) ==
  /\ pc[j] = "finalize"
  /\ db' = [db EXCEPT ![j].Status = FinalStatus(j),
                      ![j].SentCount = job[j].SentCount,
                      ![j].FailedCount = job[j].FailedCount,
                      ![j].CompletedAt = TRUE]
  /\ pc' = [pc EXCEPT ![j] = IF job[j].FailedCount > 0 THEN "start"
                             ELSE "done"]
  /\ UNCHANGED <<active, job, loopVars, logVars, cancelVars, resp, srvVars>>

\* m.db.Save(&broadcastMsg): every column of the row is written from the
\* goroutine's copy, loaded before the loop.
Finalize(j) ==
  /\ pc[j] = "finalize"
  /\ db' = [db EXCEPT ![j] =
       [UserID |-> db[j].UserID,
        BroadcastListID |-> db[j].BroadcastListID,
        MessageType |-> job[j].MessageType,
        Status |-> FinalStatus(j),
        SentCount |-> job[j].SentCount,
        FailedCount |-> job[j].FailedCount,
        TotalRecipients |-> job[j].TotalRecipients,
        StartedAt |-> TRUE,
        CompletedAt |-> TRUE]]
  /\ pc' = [pc EXCEPT ![j] = "done"]
  /\ UNCHANGED <<active, job, loopVars, logVars, cancelVars, resp, srvVars>>

\* ---------------------------------------------------------- CancelBroadcast
\* Variant: the row is marked "cancelled" before the registry is looked at.
CancelNotActiveMarks(j) ==
  /\ cancelPc[j] = "idle"
  /\ j \notin active
  /\ db' = IF j \in 1..Len(db) THEN [db EXCEPT ![j].Status = "cancelled"]
           ELSE db
  /\ cancelRet' = [cancelRet EXCEPT ![j] = "not active"]
  /\ UNCHANGED <<active, job, pc, loopVars, logVars, cancelPc,
                 signalled, resp, srvVars>>

\* The lookup fails: "broadcast not found or not active".
CancelNotActive(j) ==
  /\ cancelPc[j] = "idle"
  /\ j \notin active
  /\ cancelRet' = [cancelRet EXCEPT ![j] = "not active"]
  /\ UNCHANGED <<db, active, job, pc, loopVars, logVars, cancelPc,
                 signalled, resp, srvVars>>

\* The channel after the non-blocking send on a buffer of one.
Signal(c) == IF c < 1 THEN c + 1 ELSE c

\* Variant: the signal is sent to every registered job.
CancelSignalAll(j) ==
  /\ cancelPc[j] = "idle"
  /\ j \in active
  /\ job' = [k \in JobIds |->
       IF k \in active THEN [job[k] EXCEPT !.cancel = Signal(@)] ELSE job[k]]
  /\ signalled' = [signalled EXCEPT ![j] = TRUE]
  /\ cancelPc' = [cancelPc EXCEPT ![j] = "update"]
  /\ UNCHANGED <<db, active, pc, loopVars, logVars, cancelRet, resp, srvVars>>

\* The lookup under the read lock succeeds and the signal is sent.  Nothing
\* another goroutine does between the two changes what either does, so they
\* are one step; the update of the row is a step of its own.
CancelSignal(j) ==
  /\ cancelPc[j] = "idle"
  /\ j \in active
  /\ job' = [job EXCEPT ![j].cancel = Signal(@)]
  /\ signalled' = [signalled EXCEPT ![j] = TRUE]
  /\ cancelPc' = [cancelPc EXCEPT ![j] = "update"]
  /\ UNCHANGED <<db, active, pc, loopVars, logVars, cancelRet, resp, srvVars>>

\* Variant: the row is saved whole, as a cancelled broadcast that has
\* counted nothing.
CancelUpdateSavesRow(j) ==
  /\ cancelPc[j] = "update"
  /\ db' = [db EXCEPT ![j].Status = "cancelled", ![j].SentCount = 0,
                      ![j].FailedCount = 0]
  /\ cancelRet' = [cancelRet EXCEPT ![j] = "nil"]
  /\ cancelPc' = [cancelPc EXCEPT ![j] = "idle"]
  /\ UNCHANGED <<active, job, pc, loopVars, logVars, signalled, resp,
                 srvVars>>

\* Update("status", "cancelled") and return nil.
CancelUpdate(j) ==
  /\ cancelPc[j] = "update"
  /\ db' = [db EXCEPT ![j].Status = "cancelled"]
  /\ cancelRet' = [cancelRet EXCEPT ![j] = "nil"]
  /\ cancelPc' = [cancelPc EXCEPT ![j] = "idle"]
  /\ UNCHANGED <<active, job, pc, loopVars, logVars, signalled, resp,
                 srvVars>>

\* ------------------------------------------------------- GetBroadcastStatus
\* The BroadcastStatus returned for an id (its status and counters), or the
\* error of First().
GetBroadcastStatus(id) ==
  IF id \notin 1..Len(db) THEN [err |-> "record not found"]
  ELSE [err |-> "nil",
        Status |-> db[id].Status,
        SentCount |-> db[id].SentCount,
        FailedCount |-> db[id].FailedCount,
        TotalRecipients |-> db[id].TotalRecipients,
        StartedAt |-> db[id].StartedAt,
        CompletedAt |-> db[id].CompletedAt]

\* ------------------------------------------------------------- HTTP handlers
\* Variant: only the signature and the expiry are looked at.
ValidateTokenSignatureOnly(t) == t \in tokens

\* ValidateToken: the token is signed and not expired, and its user is a
\* row with active = true.
ValidateToken(t) ==
  /\ t \in tokens
  /\ users[t.UserID].Exists
  /\ users[t.UserID].Active

\* AuthMiddleware lets the request through if ValidateToken accepts its
\* token; the context gets the user id and the role of the claims.
AuthMiddleware(t) == ValidateToken(t)

\* POST /broadcasts/ with token t.
handleCreateBroadcast(t, listId, msgType, scheduled) ==
  /\ AuthMiddleware(t)
  /\ CreateBroadcast(listId, msgType, scheduled)

\* GET /broadcasts/:id/status with token t.
handleGetBroadcastStatus(t, id) ==
  IF AuthMiddleware(t) THEN GetBroadcastStatus(id)
  ELSE [err |-> "Invalid or expired token"]

\* POST /broadcasts/:id/cancel with token t, up to the signal.
handleCancelBroadcast(t, id) ==
  /\ AuthMiddleware(t)
  /\ \/ CancelNotActive(id)
     \/ CancelSignal(id)

\* GET /broadcasts/active with token t: the ids of the jobs listed.
handleGetActiveBroadcasts(t) ==
  IF AuthMiddleware(t) THEN active ELSE {}

\* GET /broadcasts/history with token t and no filter: the ids of the rows
\* listed.
handleGetBroadcastHistory(t) ==
  IF AuthMiddleware(t) THEN 1..Len(db) ELSE {}

\* ---------------------------------------------------------- user management
\* The variables of the broadcast engine and the transport, which no request
\* on users touches.
engineVars == <<db, active, job, pc, loopVars, logVars, cancelVars, resp,
                cfg, ready>>

Roles == {"admin", "user"}

\* AuthService.Login with the right password: a token with the user's id
\* and present role, if the user is an active row.
AuthService_Login(u) ==
  /\ users[u].Exists
  /\ users[u].Active
  /\ tokens' = tokens \cup {Token(u, users[u].Role)}
  /\ UNCHANGED <<users, engineVars>>

\* The 24 hours of a token are over.
Expire(t) ==
  /\ t \in tokens
  /\ tokens' = tokens \ {t}
  /\ UNCHANGED <<users, engineVars>>

\* AdminOnlyMiddleware: the role put into the context by AuthMiddleware, the
\* role of the claims, is "admin".
AdminOnlyMiddleware(t) == t.Role = "admin"

\* The ids that the sequence has not given out yet.
FreeIds == {u \in UserIds : ~users[u].Taken}

\* AuthService.CreateUser with a new username and email: an active row with
\* the requested role and the next id.
AuthService_CreateUser(role) ==
  /\ FreeIds # {}
  /\ LET id == CHOOSE u \in FreeIds : \A v \in FreeIds : u <= v
     IN users' = [users EXCEPT ![id] = User(role, TRUE)]
  /\ UNCHANGED <<tokens, engineVars>>

\* AuthService.UpdateUser: the role is set if the request names one, the
\* active flag if the request carries one ("nil": it does not).
AuthService_UpdateUser(userID, role, act) ==
  /\ users[userID].Exists
  /\ users' = [users EXCEPT ![userID] =
       [@ EXCEPT !.Role = IF role # "" THEN role ELSE @,
                 !.Active = IF act # "nil" THEN act = "true" ELSE @]]
  /\ UNCHANGED <<tokens, engineVars>>

\* The number of rows with role = "admin" and active = true.
AdminCount ==
  Cardinality({u \in UserIds : /\ users[u].Exists
                               /\ users[u].Role = "admin"
                               /\ users[u].Active})

\* The error AuthService.DeleteUser returns.
DeleteUserError(userID) ==
  IF ~users[userID].Exists THEN "user not found"
  ELSE IF users[userID].Role = "admin" /\ AdminCount <= 1
       THEN "cannot delete the last admin user"
  ELSE "nil"

\* AuthService.DeleteUser: the row is deleted, unless there is no such row
\* or it is an admin and at most one active admin is left.
AuthService_DeleteUser(userID) ==
  /\ users' = IF DeleteUserError(userID) = "nil"
              THEN [users EXCEPT ![userID] = DeletedUser]
              ELSE users
  /\ UNCHANGED <<tokens, engineVars>>

\* POST /users/ with token t.
AuthHandlers_CreateUser(t, role) ==
  /\ AuthMiddleware(t)
  /\ AdminOnlyMiddleware(t)
  /\ AuthService_CreateUser(role)

\* PUT /users/:id with token t, on another user.
AuthHandlers_UpdateUser(t, userID, role, act) ==
  /\ AuthMiddleware(t)
  /\ AdminOnlyMiddleware(t)
  /\ userID # t.UserID
  /\ AuthService_UpdateUser(userID, role, act)

\* DELETE /users/:id with token t, on another user.
AuthHandlers_DeleteUser(t, userID) ==
  /\ AuthMiddleware(t)
  /\ AdminOnlyMiddleware(t)
  /\ userID # t.UserID
  /\ AuthService_DeleteUser(userID)

\* ---------------------------------------------------------------- transport
\* events.Connected: the client is ready.
Connect ==
  /\ ~ready
  /\ ready' = TRUE
  /\ UNCHANGED <<db, active, job, pc, loopVars, logVars, cancelVars, resp,
                 cfg, users, tokens>>

\* events.Disconnected: the client is not ready any more.
Disconnect ==
  /\ ready
  /\ ready' = FALSE
  /\ UNCHANGED <<db, active, job, pc, loopVars, logVars, cancelVars, resp,
                 cfg, users, tokens>>

\* --------------------------------------------------------------------- time
InLoop(j) ==
  pc[j] \in {"check", "ratesleep", "send", "inflight", "flush", "delay"}

\* One tick passes for every goroutine inside sendToRecipients.
Tick ==
  /\ \E j \in JobIds : InLoop(j) /\ (elapsed[j] < Minute \/ sleepLeft[j] > 0)
  /\ elapsed' = [j \in JobIds |->
       IF InLoop(j) /\ elapsed[j] < Minute THEN elapsed[j] + 1 ELSE elapsed[j]]
  /\ sleepLeft' = [j \in JobIds |->
       IF sleepLeft[j] > 0 THEN sleepLeft[j] - 1 ELSE 0]
  /\ UNCHANGED <<db, active, job, pc, idx, sentInWindow, attempts,
                 okInWindow, refused, logVars, cancelVars, resp, srvVars>>

\* -------------------------------------------------------------------- specs
\* The steps of the executeBroadcast goroutines and the clock.
Dispatch ==
  \/ \E j \in JobIds : MarkSending(j)
  \/ \E j \in JobIds : Register(j)
  \/ \E j \in JobIds : CheckCancelled(j)
  \/ \E j \in JobIds : GateOpen(j)
  \/ \E j \in JobIds : GateSleep(j)
  \/ \E j \in JobIds : WindowReset(j)
  \/ \E j \in JobIds : SendStart(j)
  \/ \E j \in JobIds, ok \in BOOLEAN : SendReturn(j, ok, TRUE)
  \/ \E j \in JobIds : Unregister(j)
  \/ \E j \in JobIds : Finalize(j)
  \/ Tick

\* The lists a broadcast can be created on.
AcceptedLists == {l \in ListIds : ValidationError(l) = "nil"}

\* Two concurrent text broadcasts on accepted lists, each started at once,
\* with CancelBroadcast calls on the registered jobs.
Next ==
  \/ \E l \in AcceptedLists : CreateBroadcast(l, "text", FALSE)
  \/ Dispatch
  \/ \E j \in JobIds : CancelSignal(j)
  \/ \E j \in JobIds : CancelUpdate(j)

Spec == Init /\ [][Next]_vars

\* Every request of the API, on every list and with every message type,
\* with a single broadcast accepted.
NextApi ==
  \/ \E t \in tokens, l \in ListIds, ty \in MessageTypes, s \in BOOLEAN :
       /\ ValidationError(l) = "nil" => Len(db) = 0
       /\ handleCreateBroadcast(t, l, ty, s)
  \/ Dispatch
  \/ \E t \in tokens, j \in JobIds : handleCancelBroadcast(t, j)
  \/ \E j \in JobIds : CancelUpdate(j)

SpecApi == Init /\ [][NextApi]_vars

\* The steps of one executeBroadcast goroutine.
Goroutine(j) ==
  \/ MarkSending(j)
  \/ Register(j)
  \/ CheckCancelled(j)
  \/ GateOpen(j)
  \/ GateSleep(j)
  \/ WindowReset(j)
  \/ SendStart(j)
  \/ \E ok \in BOOLEAN : SendReturn(j, ok, TRUE)
  \/ Unregister(j)
  \/ Finalize(j)

\* A single broadcast with CancelBroadcast calls on it.
NextOne ==
  \/ \E l \in AcceptedLists : Len(db) = 0 /\ CreateBroadcast(l, "text", FALSE)
  \/ Dispatch
  \/ \E j \in JobIds : CancelSignal(j)
  \/ \E j \in JobIds : CancelUpdate(j)

\* The scheduler runs every goroutine that can take a step, every transport
\* call returns, and time passes.
Fairness ==
  /\ \A j \in JobIds : WF_vars(Goroutine(j))
  /\ WF_vars(Tick)

SpecFair == Init /\ [][NextOne]_vars /\ Fairness

\* What BROADCAST_RATE_LIMIT may hold when the server starts.
EnvRateLimits == {EnvUnset, EnvText, EnvInt(0), EnvInt(-1), EnvInt(RateLimit)}

InitEnv ==
  \E r \in EnvRateLimits : InitWith(r, EnvInt(MaxRecipients))

\* One text broadcast under any rate limit of the environment, with CancelBroadcast calls and
\* a connection that comes and goes.
NextEnv ==
  \/ \E l \in AcceptedLists : Len(db) = 0 /\ CreateBroadcast(l, "text", FALSE)
  \/ Dispatch
  \/ \E j \in JobIds : CancelSignal(j)
  \/ \E j \in JobIds : CancelUpdate(j)
  \/ Connect
  \/ Disconnect

SpecEnv == InitEnv /\ [][NextEnv]_vars

\* Started with neither variable set: RateLimit 10, MaxRecipients 100.
InitLong == InitWith(EnvUnset, EnvUnset)

\* One text broadcast on the list of FlushEvery + 1 recipients under the
\* default configuration, never cancelled, with a store that may fail any
\* progress flush.
NextLong ==
  \/ Len(db) = 0 /\ CreateBroadcast(9, "text", FALSE)
  \/ \E j \in JobIds : MarkSending(j)
  \/ \E j \in JobIds : Register(j)
  \/ \E j \in JobIds : GateOpen(j)
  \/ \E j \in JobIds : GateSleep(j)
  \/ \E j \in JobIds : WindowReset(j)
  \/ \E j \in JobIds : SendStart(j)
  \/ \E j \in JobIds, ok \in BOOLEAN, stored \in BOOLEAN :
       SendReturn(j, ok, stored)
  \/ \E j \in JobIds : Unregister(j)
  \/ \E j \in JobIds : Finalize(j)
  \/ Tick

SpecLong == InitLong /\ [][NextLong]_vars

\* The broadcast of SpecLong with a store that carries out every flush, the
\* return of a call followed statement by statement.
NextFlush ==
  \/ Len(db) = 0 /\ CreateBroadcast(9, "text", FALSE)
  \/ \E j \in JobIds : MarkSending(j)
  \/ \E j \in JobIds : Register(j)
  \/ \E j \in JobIds : GateOpen(j)
  \/ \E j \in JobIds : GateSleep(j)
  \/ \E j \in JobIds : WindowReset(j)
  \/ \E j \in JobIds : SendStart(j)
  \/ \E j \in JobIds, ok \in BOOLEAN : Count(j, ok)
  \/ \E j \in JobIds : ProgressFlush(j, TRUE)
  \/ \E j \in JobIds : InterMessageDelay(j)
  \/ \E j \in JobIds : Unregister(j)
  \/ \E j \in JobIds : Finalize(j)
  \/ Tick

SpecFlush == InitLong /\ [][NextFlush]_vars

\* The requests on users and the expiry of tokens, with the engine idle.
NextAuth ==
  \/ \E u \in UserIds : AuthService_Login(u)
  \/ \E t \in tokens : Expire(t)
  \/ \E t \in tokens, role \in Roles : AuthHandlers_CreateUser(t, role)
  \/ \E t \in tokens, u \in UserIds, role \in Roles \cup {""},
        act \in {"nil", "true", "false"} :
       AuthHandlers_UpdateUser(t, u, role, act)
  \/ \E t \in tokens, u \in UserIds : AuthHandlers_DeleteUser(t, u)

SpecAuth == Init /\ [][NextAuth]_vars

\* The calls of AuthService on the users table, whoever makes them.
NextUsers ==
  \/ \E role \in Roles : AuthService_CreateUser(role)
  \/ \E u \in UserIds, role \in Roles \cup {""},
        act \in {"nil", "true", "false"} :
       AuthService_UpdateUser(u, role, act)
  \/ \E u \in UserIds : AuthService_DeleteUser(u)

SpecUsers == Init /\ [][NextUsers]_vars

\* ------------------------------------------------------------------- claims
\* Number of returned attempts of job j, seen from the transport.
Returned(j) == Len(sendLog[j]) - (IF pc[j] = "inflight" THEN 1 ELSE 0)

\* The job's loop has ended before its last recipient: it took the cancel
\* branch of the poll.
StoppedEarly(j) ==
  /\ pc[j] \in {"unregister", "finalize", "done"}
  /\ Len(sendLog[j]) < Len(job[j].Recipients)

\* C1: for every job, sentCount + failedCount never exceeds the number of
\* recipients, in the in-memory job and in the persisted row.
C1_CountersBounded ==
  /\ \A j \in JobIds :
       /\ job[j].TotalRecipients = Len(job[j].Recipients)
       /\ job[j].SentCount + job[j].FailedCount <= Len(job[j].Recipients)
  /\ \A j \in 1..Len(db) :
       db[j].SentCount + db[j].FailedCount <= db[j].TotalRecipients

\* A finished job of MaxRecipients recipients, every one attempted, one of
\* them failed, with the counters flushed to the row.
C1_Witness ==
  \E j \in 1..Len(db) :
    /\ pc[j] = "done"
    /\ db[j].TotalRecipients = MaxRecipients
    /\ db[j].FailedCount > 0
    /\ db[j].SentCount + db[j].FailedCount = db[j].TotalRecipients
    /\ job[j].SentCount + job[j].FailedCount = Len(job[j].Recipients)

\* C2: a row whose status is "completed" has sentCount + failedCount equal
\* to totalRecipients.
C2_CompletedCountsAll ==
  \A j \in 1..Len(db) :
    db[j].Status = "completed" =>
      db[j].SentCount + db[j].FailedCount = db[j].TotalRecipients

\* C3: when a cancel has succeeded and the loop has observed it with k < N
\* recipients attempted, then, once the goroutine and the cancel call have
\* both finished, nothing more was attempted, the counters sum to k and the
\* persisted status is "cancelled".
C3_CancelledJobEndsCancelled ==
  \A j \in JobIds :
    (pc[j] = "done" /\ cancelPc[j] = "idle" /\ signalled[j] /\ StoppedEarly(j))
    => /\ job[j].SentCount + job[j].FailedCount = Len(sendLog[j])
       /\ db[j].SentCount + db[j].FailedCount = Len(sendLog[j])
       /\ db[j].Status = "cancelled"

\* The status changes the state machine allows.
StatusEdges ==
  {<<"pending", "sending">>, <<"sending", "completed">>,
   <<"sending", "cancelled">>}

\* C4: the persisted status of a job changes only pending -> sending,
\* sending -> completed or sending -> cancelled; completed and cancelled are
\* final and no job goes from sending to failed.
C4_StatusTransitions ==
  [][\A j \in 1..Len(db) :
       \/ db'[j].Status = db[j].Status
       \/ <<db[j].Status, db'[j].Status>> \in StatusEdges]_vars

\* Sends answered without error during the last minute by the jobs of S:
\* those counted since a windowStart that is less than a minute old.
RECURSIVE SentLastMinute(_)
SentLastMinute(S) ==
  IF S = {} THEN 0
  ELSE LET j == CHOOSE x \in S : TRUE
       IN (IF InLoop(j) /\ elapsed[j] < Minute THEN okInWindow[j] ELSE 0)
          + SentLastMinute(S \ {j})

\* C5: the rate limit is global: all jobs together send at most RateLimit
\* messages within any minute.
C5_GlobalRateLimit == SentLastMinute(JobIds) <= RateLimit

C7_NextWindowAfterAMinute ==
  [][\A j \in JobIds :
       /\ (pc[j] = "ratesleep" /\ pc'[j] = "send") => elapsed[j] = Minute
       /\ (delivered'[j] = Len(sendLog'[j])
                             - (IF pc'[j] = "inflight" THEN 1 ELSE 0))
            => attempts'[j] <= RateLimit]_vars

\* The (RateLimit+1)-th send of a job whose sends all succeeded is in
\* flight, as the first send of a new window.
C7_Witness ==
  \E j \in JobIds :
    /\ pc[j] = "inflight"
    /\ Len(sendLog[j]) = RateLimit + 1
    /\ delivered[j] = RateLimit
    /\ attempts[j] = 1

\* C8: a failed delivery neither aborts the job nor is retried: a job on
\* which no cancel succeeded ends with every recipient attempted once, in
\* order, sentCount the number of successful sends, failedCount the number
\* of failed ones, and status "completed".
C8_FailuresIsolated ==
  \A j \in JobIds :
    (pc[j] = "done" /\ ~signalled[j])
    => /\ sendLog[j] = job[j].Recipients
       /\ job[j].SentCount = delivered[j]
       /\ job[j].FailedCount = Len(sendLog[j]) - delivered[j]
       /\ db[j].Status = "completed"
       /\ db[j].SentCount = delivered[j]
       /\ db[j].FailedCount = Len(sendLog[j]) - delivered[j]

\* A finished, never cancelled job of MaxRecipients recipients with exactly
\* one failed delivery.
C8_Witness ==
  \E j \in JobIds :
    /\ pc[j] = "done" /\ ~signalled[j]
    /\ Len(job[j].Recipients) = MaxRecipients
    /\ delivered[j] = MaxRecipients - 1
    /\ db[j].FailedCount = 1

\* The number of active recipients of a stored list, counted directly.
ActiveCount(l) ==
  Cardinality({i \in DOMAIN BroadcastLists[l].Recipients :
                 BroadcastLists[l].Recipients[i].IsActive})

\* The errors of the validation.
ValidationErrors ==
  {"record not found", "broadcast list is not active",
   "no active recipients", "too many recipients"}

\* The request names a list a broadcast may be created on.
ListOk(l) ==
  /\ l \in DOMAIN BroadcastLists
  /\ BroadcastLists[l].IsActive
  /\ ActiveCount(l) \in 1..MaxRecipients

\* C9: a CreateBroadcast call on a list that is missing, inactive, without
\* active recipient or with too many fails with a validation error, and the
\* failing call inserts no row, starts no goroutine and leaves the registry
\* and the jobs as they were; a list without active recipient fails with
\* "no active recipients".
C9_RejectedCreatesNothing ==
  [][resp' # resp =>
       /\ resp'.Success <=> ListOk(resp'.list)
       /\ ~resp'.Success =>
            /\ resp'.err \in ValidationErrors
            /\ db' = db /\ pc' = pc /\ active' = active /\ job' = job
       /\ (/\ resp'.list \in DOMAIN BroadcastLists
           /\ BroadcastLists[resp'.list].IsActive
           /\ ActiveCount(resp'.list) = 0)
            => resp'.err = "no active recipients"]_vars

\* A request on the list without active recipients was refused while a job
\* was registered.
C9_Witness ==
  /\ resp.err = "no active recipients"
  /\ active # {}
  /\ Len(db) = 1

FirstFailure(l) ==
  CASE l \notin DOMAIN BroadcastLists -> "record not found"
    [] l \in DOMAIN BroadcastLists /\ ~BroadcastLists[l].IsActive
         -> "broadcast list is not active"
    [] l \in DOMAIN BroadcastLists /\ BroadcastLists[l].IsActive
         /\ ActiveCount(l) = 0 -> "no active recipients"
    [] l \in DOMAIN BroadcastLists /\ BroadcastLists[l].IsActive
         /\ ActiveCount(l) > MaxRecipients -> "too many recipients"
    [] OTHER -> "nil"

\* C11: CreateBroadcast reports the first validation that fails, in the
\* order list exists, list active, active recipients > 0, active recipients
\* <= MaxRecipients: an inactive list yields "broadcast list is not active"
\* whatever its recipients are.
C11_FirstFailureReported ==
  resp.err # "none" =>
    /\ resp.err = FirstFailure(resp.list)
    /\ resp.Success <=> resp.err = "nil"

\* The request on the inactive list without active recipients was refused
\* as inactive.
C11_Witness ==
  /\ resp.list \in DOMAIN BroadcastLists
  /\ ~BroadcastLists[resp.list].IsActive
  /\ ActiveCount(resp.list) = 0
  /\ resp.err = "broadcast list is not active"

\* C12: every accepted CreateBroadcast request, one carrying scheduled_at
\* included, has its row persisted as "pending" with the number of active
\* recipients and has its executeBroadcast goroutine started: a row is
\* "pending" only while its goroutine is about to mark it "sending".
C12_AcceptedIsDispatched ==
  /\ resp.Success =>
       /\ resp.BroadcastID \in 1..Len(db)
       /\ db[resp.BroadcastID].TotalRecipients = ActiveCount(resp.list)
       /\ resp.TotalRecipients = ActiveCount(resp.list)
  /\ \A j \in 1..Len(db) : db[j].Status = "pending" => pc[j] = "start"

\* C13: a second CancelBroadcast call on a job, made after a first one has
\* returned nil, never blocks (the channel never holds more than its one
\* slot), returns nil or "not active", and is a no-op: it leaves the
\* persisted row of the job as the first call left it.
C13_SecondCancelNoOp ==
  [][\A j \in JobIds :
       /\ job'[j].cancel <= 1
       /\ cancelRet'[j] \in {"none", "nil", "not active"}
       /\ (cancelPc[j] = "update" /\ cancelPc'[j] = "idle"
             /\ cancelRet[j] = "nil")
            => db'[j] = db[j]]_vars

\* C14: CancelBroadcast on an id that is not registered (no such row, a row
\* whose goroutine has not registered yet, or a finished job) returns
\* "broadcast not found or not active" and changes nothing: the rows, the
\* registry, the jobs and the goroutines are as before; only a call that
\* finds the id registered goes on to signal and update.
C14_NotActiveChangesNothing ==
  [][\A j \in JobIds :
       /\ (cancelRet'[j] = "not active" /\ cancelRet[j] # "not active")
            => /\ j \notin active
               /\ db' = db /\ active' = active /\ job' = job /\ pc' = pc
       /\ (cancelPc[j] = "idle" /\ cancelPc'[j] = "update") => j \in active
       /\ (cancelRet'[j] = "nil" /\ cancelPc[j] = "idle")
            => cancelRet[j] = "nil"]_vars

\* A call on a job that had been cancelled while registered and has since
\* left the registry returned "not active"; the row is as the goroutine
\* saved it.
C14_Witness ==
  \E j \in 1..Len(db) :
    /\ cancelRet[j] = "not active"
    /\ signalled[j]
    /\ pc[j] = "done"
    /\ db[j].Status = "completed"

\* C15 as stated: the send in flight when the signal is raised finishes and
\* is counted, and no send starts once the signal has been raised, wherever
\* the loop was when it arrived.
C15_NoSendAfterSignal ==
  [][\A j \in JobIds :
       /\ (signalled[j] /\ pc[j] = "inflight" /\ pc'[j] # "inflight")
            => job'[j].SentCount + job'[j].FailedCount
                 = job[j].SentCount + job[j].FailedCount + 1
       /\ (pc[j] = "send" /\ pc'[j] = "inflight") => ~signalled[j]]_vars

\* C15 as amended: the send in flight when the signal is raised finishes
\* and is counted, and the first poll after the signal ends the loop.  A
\* signal raised after the poll of an iteration (during the rate-limit
\* sleep or just before the send) does not stop that iteration's send: a
\* send that starts after the signal starts with the signal still unread
\* in the channel, and it is the last one.
C15_StopsAtNextPoll ==
  [][\A j \in JobIds :
       /\ (signalled[j] /\ pc[j] = "inflight" /\ pc'[j] # "inflight")
            => job'[j].SentCount + job'[j].FailedCount
                 = job[j].SentCount + job[j].FailedCount + 1
       /\ (signalled[j] /\ pc[j] = "check" /\ pc'[j] # "check")
            => /\ pc'[j] = "unregister"
               /\ sendLog'[j] = sendLog[j]
       /\ (signalled[j] /\ pc[j] = "send" /\ pc'[j] = "inflight")
            => job[j].cancel = 1
       /\ (signalled[j] /\ pc[j] \in {"unregister", "finalize", "done"})
            => sendLog'[j] = sendLog[j]]_vars

\* A cancelled job of two recipients: its first send has returned and is
\* counted, and the loop has ended at the poll that followed, without a
\* second send.
C15_Witness ==
  \E j \in JobIds :
    /\ signalled[j]
    /\ pc[j] = "unregister"
    /\ Len(job[j].Recipients) = 2
    /\ Len(sendLog[j]) = 1
    /\ job[j].SentCount + job[j].FailedCount = 1

\* C16: while a job is registered, GetBroadcastStatus returns the status
\* and the counters of the in-memory job; for an id that is not registered
\* it returns the persisted row.
C16_StatusOfLiveJob ==
  \A j \in 1..Len(db) :
    /\ GetBroadcastStatus(j).err = "nil"
    /\ IF j \in active
       THEN /\ GetBroadcastStatus(j).Status = job[j].Status
            /\ GetBroadcastStatus(j).SentCount = job[j].SentCount
            /\ GetBroadcastStatus(j).FailedCount = job[j].FailedCount
       ELSE /\ GetBroadcastStatus(j).Status = db[j].Status
            /\ GetBroadcastStatus(j).SentCount = db[j].SentCount
            /\ GetBroadcastStatus(j).FailedCount = db[j].FailedCount

\* C17 as stated: a job is registered if and only if its persisted status
\* is "sending".
C17_RegisteredIffSending ==
  \A j \in 1..Len(db) : j \in active <=> db[j].Status = "sending"

\* C17 as amended: a registered job has in-memory status "sending" and a
\* row that says "sending" or, once a cancel has marked it, "cancelled";
\* no job whose row is pending, completed or failed is registered; a row
\* that says "sending" belongs to a job outside the registry only just
\* before its registration or between its removal and the final save.
C17_RegisteredIsSending ==
  /\ \A j \in active :
       /\ j \in 1..Len(db)
       /\ job[j].Status = "sending"
       /\ db[j].Status \in {"sending", "cancelled"}
  /\ \A j \in 1..Len(db) :
       /\ db[j].Status \in {"pending", "completed", "failed"}
            => j \notin active
       /\ (db[j].Status = "sending" /\ j \notin active)
            => pc[j] \in {"register", "unregister", "finalize"}

\* A registered job whose row a cancel has already marked "cancelled".
C17_Witness ==
  \E j \in active : db[j].Status = "cancelled" /\ InLoop(j)

\* The stage of an executeBroadcast goroutine.
Phase(p) ==
  CASE p = "none" -> 0
    [] p = "start" -> 1
    [] p = "register" -> 2
    [] p \in {"check", "ratesleep", "send", "inflight"} -> 3
    [] p = "unregister" -> 4
    [] p = "finalize" -> 5
    [] p = "done" -> 6

\* C18: each id has one executeBroadcast goroutine, which never goes back
\* to an earlier stage; the id enters the registry only at that goroutine's
\* registration, when it is not in it (no entry is ever replaced), at most
\* once, and never again after its removal.
C18_RegisteredAtMostOnce ==
  [][\A j \in JobIds :
       /\ Phase(pc'[j]) >= Phase(pc[j])
       /\ (pc[j] = "none" /\ pc'[j] # "none")
            => pc'[j] = "start" /\ Len(db) = j - 1 /\ Len(db') = j
       /\ (pc[j] = "register" /\ pc'[j] # "register") => j \notin active
       /\ (j \notin active /\ j \in active')
            => pc[j] = "register" /\ pc'[j] = "check"
       /\ (j \in active /\ j \notin active') => pc[j] = "unregister"
       /\ j \in active' => Phase(pc'[j]) \in {3, 4}]_vars

\* A job that was registered, made its sends and left the registry, while
\* the other job is registered.
C18_Witness ==
  \E j \in JobIds :
    /\ pc[j] = "done" /\ j \notin active /\ Len(sendLog[j]) > 0
    /\ active # {}

\* The JIDs of the active recipients of job j's list, in list order.
ListOrder(j) ==
  LET rs == BroadcastLists[db[j].BroadcastListID].Recipients
      act == {i \in DOMAIN rs : rs[i].IsActive}
  IN [k \in 1..Cardinality(act) |->
        rs[CHOOSE i \in act : Cardinality({h \in act : h <= i}) = k].JID]

\* C19: the attempts of a job follow its recipient list: at every moment
\* the attempts made so far are the first recipients of the list, in list
\* order, each once; a send starts only when every earlier one has returned
\* and is counted, so at most one is in flight.
C19_InListOrder ==
  \A j \in JobIds :
    pc[j] \notin {"none", "start"} =>
      /\ Len(sendLog[j]) <= Len(ListOrder(j))
      /\ sendLog[j] = SubSeq(ListOrder(j), 1, Len(sendLog[j]))
      /\ \A a, b \in 1..Len(sendLog[j]) :
           sendLog[j][a] = sendLog[j][b] => a = b
      /\ job[j].SentCount + job[j].FailedCount = Returned(j)
      /\ InLoop(j) => Returned(j) = idx[j]

\* The second send of a job on the list with an inactive recipient between
\* two active ones is in flight, the first one having returned.
C19_Witness ==
  \E j \in JobIds :
    /\ pc[j] = "inflight"
    /\ Len(sendLog[j]) = 2
    /\ sendLog[j][1] < sendLog[j][2]
    /\ db[j].BroadcastListID = 1
    /\ job[j].SentCount + job[j].FailedCount = 1

\* The job has run to its end: every recipient attempted, the row saved as
\* "completed" with CompletedAt.
RanToCompletion(j) ==
  /\ pc[j] = "done"
  /\ sendLog[j] = job[j].Recipients
  /\ job[j].SentCount + job[j].FailedCount = Len(job[j].Recipients)
  /\ j \in 1..Len(db)
  /\ db[j].Status = "completed"
  /\ db[j].CompletedAt

\* C20: the rate limiter delays and never drops a send: a started job
\* eventually has attempted every recipient and is persisted as "completed"
\* with CompletedAt, unless a cancel is raised on it.
C20_EventuallyCompleted ==
  \A j \in JobIds :
    (pc[j] = "start") ~> (signalled[j] \/ RanToCompletion(j))

\* A job that was never cancelled has run to completion through a closed
\* gate: more recipients than RateLimit, every send successful.
C20_Witness ==
  \E j \in JobIds :
    /\ ~signalled[j]
    /\ RanToCompletion(j)
    /\ Len(sendLog[j]) > RateLimit
    /\ delivered[j] = Len(sendLog[j])

\* C21: every job that enters the registry eventually leaves it, whether
\* its loop ends after the last recipient or at a poll that reads a cancel
\* signal; once a cancel has found the job registered, the job leaves the
\* registry.
C21_EventuallyUnregistered ==
  \A j \in JobIds :
    /\ (j \in active) ~> (j \notin active)
    /\ (signalled[j] /\ j \in active) ~> (j \notin active)

\* A cancelled job whose loop ended before its last recipient has left the
\* registry.
C21_Witness ==
  \E j \in JobIds :
    /\ signalled[j]
    /\ StoppedEarly(j)
    /\ pc[j] \in {"finalize", "done"}
    /\ j \notin active

\* C22: once the loop of a job has ended and the final save has run, the
\* persisted sentCount and failedCount are those of the in-memory job,
\* wherever between two flushes the loop stopped and whether or not a
\* cancel writes the row before or after.
C22_FinalCountersPersisted ==
  \A j \in JobIds :
    pc[j] = "done" =>
      /\ db[j].SentCount = job[j].SentCount
      /\ db[j].FailedCount = job[j].FailedCount
      /\ db[j].SentCount + db[j].FailedCount = Len(sendLog[j])

\* A job cancelled after its first attempt, which no progress flush
\* followed, is finished, with the cancel's write after the final save.
C22_Witness ==
  \E j \in JobIds :
    /\ pc[j] = "done"
    /\ StoppedEarly(j)
    /\ Len(sendLog[j]) = 1
    /\ db[j].Status = "cancelled"
    /\ db[j].SentCount + db[j].FailedCount = 1

\* C23: a rate limit R <= 0 is rejected when the engine is constructed, so
\* that no engine with R <= 0 exists and no dispatch loop ever runs with
\* R <= 0: whenever a goroutine is inside sendToRecipients the rate limit of
\* the engine is at least 1.
C23_NoLoopBelowOne ==
  \A j \in JobIds : InLoop(j) => cfg.RateLimit >= 1

\* C24: the message type of every job accepted by CreateBroadcast is one of
\* text, image, document, audio, video: no row is created and no dispatch
\* loop runs for a request with another message type.
C24_AcceptedTypeInEnumeration ==
  \A j \in 1..Len(db) :
    /\ db[j].MessageType \in TransportTypes
    /\ InLoop(j) => job[j].MessageType \in TransportTypes

\* Number of returned attempts of job j that found the client not ready.
RECURSIVE CountTrue(_)
CountTrue(q) ==
  IF q = <<>> THEN 0
  ELSE (IF q[1] THEN 1 ELSE 0) + CountTrue(Tail(q))

RefusedReturned(j) == CountTrue(SubSeq(refused[j], 1, Returned(j)))

\* C25: a send that finds the transport not ready delivers nothing and is
\* counted in FailedCount (the deliveries are at most the attempts that found
\* it ready, the failures at least those that did not); the job is not
\* aborted: a loop that no cancellation reached ends only after its last
\* recipient, and a job that found the transport not ready at every send ends
\* "completed" with FailedCount = TotalRecipients and SentCount = 0.
C25_NotReadyCountedAsFailure ==
  \A j \in JobIds :
    /\ delivered[j] + RefusedReturned(j) <= Returned(j)
    /\ (pc[j] # "none" /\ pc[j] # "start") =>
         /\ job[j].SentCount = delivered[j]
         /\ job[j].FailedCount >= RefusedReturned(j)
         /\ job[j].SentCount + job[j].FailedCount = Returned(j)
    /\ (pc[j] \in {"unregister", "finalize", "done"} /\ ~signalled[j]) =>
         Len(sendLog[j]) = Len(job[j].Recipients)
    /\ (pc[j] = "done" /\ ~signalled[j]
          /\ RefusedReturned(j) = Len(job[j].Recipients)) =>
         /\ db[j].Status = "completed"
         /\ db[j].FailedCount = db[j].TotalRecipients
         /\ db[j].SentCount = 0
         /\ job[j].FailedCount = job[j].TotalRecipients
         /\ job[j].SentCount = 0

\* A job of more than one recipient has ended, never cancelled, with the
\* transport not ready at every one of its sends.
C25_Witness ==
  \E j \in JobIds :
    /\ pc[j] = "done"
    /\ ~signalled[j]
    /\ Len(job[j].Recipients) > 1
    /\ RefusedReturned(j) = Len(job[j].Recipients)
    /\ db[j].Status = "completed"
    /\ db[j].FailedCount = Len(job[j].Recipients)

\* C26: a progress flush that fails neither stops nor alters dispatch:
\* whichever flushes fail, the in-memory counters are the counts of the
\* transport (what they are when every flush succeeds), every return of a
\* call before the last recipient is followed by the next iteration, and the
\* loop ends only after the last recipient was attempted.
C26_FlushFailureIgnored ==
  \A j \in JobIds :
    /\ (pc[j] # "none" /\ pc[j] # "start") =>
         /\ job[j].SentCount = delivered[j]
         /\ job[j].SentCount + job[j].FailedCount = Returned(j)
    /\ InLoop(j) => idx[j] = Returned(j)
    /\ (pc[j] \in {"unregister", "finalize", "done"} /\ ~signalled[j]) =>
         Len(sendLog[j]) = Len(job[j].Recipients)

\* The flush after the tenth recipient has failed (the row still shows no
\* attempt) and the eleventh recipient is being attempted.
C26_Witness ==
  \E j \in JobIds :
    /\ pc[j] = "inflight"
    /\ idx[j] = FlushEvery
    /\ job[j].SentCount + job[j].FailedCount = FlushEvery
    /\ db[j].SentCount + db[j].FailedCount = 0

\* C27: pending -> sending happens before any send: a row leaves "pending"
\* only to "sending", with StartedAt set and no recipient attempted yet; a
\* job with an attempted recipient has a row that has left "pending" and
\* carries StartedAt; and StartedAt, once set, stays set (the final Save
\* writes the value of the first one back).
C27_SendingBeforeAnySend ==
  [][\A j \in 1..Len(db') :
       /\ Len(sendLog'[j]) > 0 =>
            /\ db'[j].StartedAt
            /\ db'[j].Status # "pending"
       /\ j <= Len(db) =>
            /\ db[j].StartedAt => db'[j].StartedAt
            /\ (db[j].Status = "pending" /\ db'[j].Status # "pending") =>
                 /\ db'[j].Status = "sending"
                 /\ db'[j].StartedAt
                 /\ Len(sendLog'[j]) = 0]_vars

\* A job has attempted all its recipients and its final Save is done: the
\* row carries StartedAt and CompletedAt.
C27_Witness ==
  \E j \in JobIds :
    /\ pc[j] = "done"
    /\ Len(sendLog[j]) = Len(job[j].Recipients)
    /\ Len(sendLog[j]) > 1
    /\ db[j].StartedAt
    /\ db[j].CompletedAt

\* C28: SentCount and FailedCount of a job never decrease, in the job and in
\* its row, and only the job's own goroutine changes them: the job's
\* counters change exactly when one of its transport calls returns, and then
\* exactly one of the two grows by exactly 1; the row's counters change only
\* at a flush or at the final Save of that goroutine, to the job's counters.
\* No step of CancelBroadcast or of another job's goroutine changes them.
C28_CountersOnlyGrowInOwnLoop ==
  [][\A j \in JobIds :
       /\ job'[j].SentCount >= job[j].SentCount
       /\ job'[j].FailedCount >= job[j].FailedCount
       /\ (pc[j] = "inflight" /\ pc'[j] # "inflight") <=>
            (job'[j].SentCount + job'[j].FailedCount
               = job[j].SentCount + job[j].FailedCount + 1)
       /\ (pc[j] = "inflight" <=> pc'[j] = "inflight") =>
            /\ job'[j].SentCount = job[j].SentCount
            /\ job'[j].FailedCount = job[j].FailedCount
       /\ j \in 1..Len(db) =>
            /\ db'[j].SentCount >= db[j].SentCount
            /\ db'[j].FailedCount >= db[j].FailedCount
            /\ (db'[j].SentCount # db[j].SentCount
                  \/ db'[j].FailedCount # db[j].FailedCount) =>
                 /\ pc[j] \in {"inflight", "finalize"}
                 /\ pc'[j] # pc[j]
                 /\ db'[j].SentCount = job'[j].SentCount
                 /\ db'[j].FailedCount = job'[j].FailedCount]_vars

\* A job that a CancelBroadcast call has reached and whose row holds the
\* counters of its last flush: one recipient sent, one failed.
C28_Witness ==
  \E j \in JobIds :
    /\ signalled[j]
    /\ cancelRet[j] = "nil"
    /\ cancelPc[j] = "idle"
    /\ db[j].SentCount = 1
    /\ db[j].FailedCount = 1
    /\ job[j].SentCount = 1
    /\ job[j].FailedCount = 1

\* C29: data isolation for broadcasts: a request with the token of user u
\* starts a broadcast only on a list of u, and gets the status of, cancels,
\* and is listed (active, history) only rows whose UserID is u.
C29_DataIsolation ==
  [][\A t \in tokens :
       /\ \A l \in ListIds, ty \in MessageTypes, s \in BOOLEAN :
            (handleCreateBroadcast(t, l, ty, s) /\ resp'.Success) =>
              BroadcastLists[l].UserID = t.UserID
       /\ \A id \in 1..Len(db) :
            /\ handleGetBroadcastStatus(t, id).err = "nil" =>
                 db[id].UserID = t.UserID
            /\ (handleCancelBroadcast(t, id) /\ id \in active) =>
                 db[id].UserID = t.UserID
            /\ id \in handleGetActiveBroadcasts(t) => db[id].UserID = t.UserID
            /\ id \in handleGetBroadcastHistory(t) =>
                 db[id].UserID = t.UserID]_vars

\* The user of token t is, now, an active row with role admin.
IsActiveAdmin(t) ==
  /\ users[t.UserID].Exists
  /\ users[t.UserID].Active
  /\ users[t.UserID].Role = "admin"

\* C30: user management is admin only: a create, update or delete of a user
\* requested with token t succeeds only if the user of t is, at the time of
\* the request, active and of role admin, whatever the role was when the
\* token was issued.
C30_AdminOnly ==
  [][\A t \in tokens :
       /\ (\E role \in Roles : AuthHandlers_CreateUser(t, role))
            => IsActiveAdmin(t)
       /\ (\E u \in UserIds, role \in Roles \cup {""},
              act \in {"nil", "true", "false"} :
              AuthHandlers_UpdateUser(t, u, role, act))
            => IsActiveAdmin(t)
       /\ (\E u \in UserIds : AuthHandlers_DeleteUser(t, u))
            => IsActiveAdmin(t)]_vars

\* The sum of the two counters of a job or row.
Attempted(r) == r.SentCount + r.FailedCount

C32_DelayBetweenRecipients ==
  [][\A j \in JobIds :
       /\ (pc[j] = "delay" /\ pc'[j] # "delay") =>
            IF Returned(j) < Len(job[j].Recipients)
            THEN /\ delays'[j] = delays[j] + 1
                 /\ pc'[j] = "check"
                 /\ idx'[j] = idx[j] + 1
            ELSE /\ delays'[j] = delays[j]
                 /\ pc'[j] = "unregister"
       /\ (pc[j] = "delay" => pc'[j] = "delay") => delays'[j] = delays[j]
       /\ InLoop(j) => delays[j] = idx[j]
       /\ (pc[j] \in {"unregister", "finalize", "done"}
             /\ Len(sendLog[j]) = Len(job[j].Recipients)) =>
            delays[j] = Len(job[j].Recipients) - 1]_vars

\* A job of 11 recipients is done with every call answered without error, so
\* that the window of 10 was used up when the tenth delay was over: 10 delays.
C32_Witness ==
  \E j \in JobIds :
    /\ pc[j] = "done"
    /\ Len(job[j].Recipients) = cfg.RateLimit + 1
    /\ delivered[j] = Len(job[j].Recipients)
    /\ delays[j] = cfg.RateLimit

\* C33: a successful CancelBroadcast(j) changes only the cancellation signal
\* of j (at its first step) and the persisted status of j (at its second):
\* the counters of j in the job and in the row, the registry, and the job
\* and the row of every other broadcast are as before.
C33_CancelFrame ==
  [][\A j \in JobIds :
       cancelPc'[j] # cancelPc[j] =>
         /\ active' = active
         /\ pc' = pc
         /\ \A k \in JobIds \ {j} :
              /\ job'[k] = job[k]
              /\ k \in 1..Len(db) => db'[k] = db[k]
         /\ Len(db') = Len(db)
         /\ IF cancelPc[j] = "idle"
            THEN /\ job' = [job EXCEPT ![j].cancel = job'[j].cancel]
                 /\ db' = db
            ELSE /\ job' = job
                 /\ db' = [db EXCEPT ![j].Status = "cancelled"]]_vars

\* Broadcast 1 was cancelled after its first recipient was counted while
\* broadcast 2, never signalled, is registered and inside its loop.
C33_Witness ==
  /\ signalled[1]
  /\ cancelRet[1] = "nil"
  /\ db[1].Status = "cancelled"
  /\ Attempted(job[1]) = 1
  /\ 2 \in active
  /\ ~signalled[2]
  /\ job[2].cancel = 0
  /\ InLoop(2)

\* C34: last-admin protection: DeleteUser on an admin is refused with
\* "cannot delete the last admin user" when at most one active admin exists,
\* and consequently, after any sequence of CreateUser, UpdateUser and
\* DeleteUser calls from a state with an active admin, an active admin
\* remains.
C34_ActiveAdminRemains ==
  /\ \A u \in UserIds :
       (users[u].Exists /\ users[u].Role = "admin" /\ AdminCount <= 1) =>
         DeleteUserError(u) = "cannot delete the last admin user"
  /\ AdminCount >= 1

\* The user named by the claims of token t is inactive or has no row.
UserGone(t) == ~users[t.UserID].Exists \/ ~users[t.UserID].Active

\* C35: a token stops working as soon as its user is deactivated or deleted:
\* while the user of an issued, unexpired token is inactive or absent,
\* ValidateToken fails, AuthMiddleware answers "Invalid or expired token"
\* (401) and no request carrying the token is served.
C35_TokenOfGoneUserRejected ==
  /\ [](\A t \in tokens : UserGone(t) =>
          /\ ~ValidateToken(t)
          /\ ~AuthMiddleware(t)
          /\ handleGetBroadcastStatus(t, 1).err = "Invalid or expired token"
          /\ handleGetActiveBroadcasts(t) = {}
          /\ handleGetBroadcastHistory(t) = {})
  /\ [][\A t \in tokens : UserGone(t) =>
          /\ \A role \in Roles : ~AuthHandlers_CreateUser(t, role)
          /\ \A u \in UserIds, role \in Roles \cup {""},
                act \in {"nil", "true", "false"} :
               ~AuthHandlers_UpdateUser(t, u, role, act)
          /\ \A u \in UserIds : ~AuthHandlers_DeleteUser(t, u)]_vars

\* Two unexpired tokens: the user of one has been deactivated, the user of
\* the other deleted, and an active admin is left to make requests.
C35_Witness ==
  /\ \E t \in tokens : users[t.UserID].Exists /\ ~users[t.UserID].Active
  /\ \E t \in tokens : users[t.UserID] = DeletedUser
  /\ \E t \in tokens : IsActiveAdmin(t) /\ t.Role = "admin"

====
